---- MODULE Spec2Model ----
(***************************************************************************)
(* Model of the pull-based scanner SplitTokens of src/src/main.rs.         *)
(* A text is a sequence of one-character strings.  The cursor is the       *)
(* field `remainder`; every pull is one evaluation of SplitTokens::next.   *)
(***************************************************************************)
EXTENDS Integers, Sequences, FiniteSets, TLC

\* original, remainder: the two fields of SplitTokens.
\* before:  the remainder as it was when the last pull began.
\* results: the items the pulls have returned so far, oldest first.
VARIABLES original, remainder, before, results

vars == <<original, remainder, before, results>>

\* ------------------------------------------------------------------ bounds
MaxLen == 4
MaxPulls == 6

\* ------------------------------------------------------- character classes
NoChar == ""
NUL == "NUL"

Whitespace == {" ", "\t", "\n"}
AsciiDigits == {"0", "1", "2", "3", "4", "5", "6", "7", "8", "9"}
Lowercase == {"a", "b", "c", "d", "e", "f", "g", "h", "i", "j", "k", "l", "m",
              "n", "o", "p", "q", "r", "s", "t", "u", "v", "w", "x", "y", "z"}
Uppercase == {"A", "B", "C", "D", "E", "F", "G", "H", "I", "J", "K", "L", "M",
              "N", "O", "P", "Q", "R", "S", "T", "U", "V", "W", "X", "Y", "Z"}

is_whitespace(c) == c \in Whitespace
is_ascii_digit(c) == c \in AsciiDigits
is_alphabetic(c) == c \in Lowercase \cup Uppercase
is_uppercase(c) == c \in Uppercase
is_alphanumeric(c) == is_alphabetic(c) \/ c \in AsciiDigits

\* ------------------------------------------------------------ text helpers
Drop(s, n) == SubSeq(s, n + 1, Len(s))
Take(s, n) == SubSeq(s, 1, n)

\* number of leading / trailing whitespace characters of s
RECURSIVE LeadingWs(_)
LeadingWs(s) ==
  IF s = <<>> \/ ~is_whitespace(s[1]) THEN 0 ELSE 1 + LeadingWs(Tail(s))

RECURSIVE TrailingWs(_)
TrailingWs(s) ==
  IF s = <<>> \/ ~is_whitespace(s[Len(s)]) THEN 0
  ELSE 1 + TrailingWs(Take(s, Len(s) - 1))

\* str::trim: both ends are trimmed
Trim(s) ==
  LET t == Drop(s, LeadingWs(s)) IN Take(t, Len(t) - TrailingWs(t))

\* ----------------------------------------------------------------- results
Item(tag, kind, sub, lexeme, num, str, ch) ==
  [tag |-> tag, kind |-> kind, sub |-> sub, lexeme |-> lexeme,
   num |-> num, str |-> str, ch |-> ch]

NoneItem == Item("None", "", "", <<>>, 0, <<>>, NoChar)
Token(kind, sub, lexeme) == Item("Ok", kind, sub, lexeme, 0, <<>>, NoChar)
NumberToken(i, lexeme) == Item("Ok", "Number", "", lexeme, i, <<>>, NoChar)
StringToken(string, lexeme) == Item("Ok", "String", "", lexeme, 0, string, NoChar)
InvalidChar(c, slice) == Item("Err", "InvalidChar", "", slice, 0, <<>>, c)
ParseIntError(e, token) == Item("Err", "ParseIntError", e, token, 0, <<>>, NoChar)
UnterminatedString == Item("Err", "UnterminatedString", "", <<>>, 0, <<>>, NoChar)
InvalidEscape(c) == Item("Err", "InvalidEscape", "", <<>>, 0, <<>>, c)

\* what a sub-scanner hands back: the item and the text after the token
Scanned(item, rest) == [item |-> item, rest |-> rest]

\* --------------------------------------------------------- integer parsing
I32Max == 2147483647
I32Min == -I32Max - 1

DigitVal(c) ==
  CASE c = "0" -> 0 [] c = "1" -> 1 [] c = "2" -> 2 [] c = "3" -> 3
    [] c = "4" -> 4 [] c = "5" -> 5 [] c = "6" -> 6 [] c = "7" -> 7
    [] c = "8" -> 8 [] c = "9" -> 9

ParsedOk(v) == [ok |-> TRUE, val |-> v, err |-> ""]
ParsedErr(e) == [ok |-> FALSE, val |-> 0, err |-> e]

\* the digit loop of <i32 as FromStr>: checked_mul by 10, then checked_add
\* for a non-negative literal and checked_sub for a negative one
RECURSIVE Accumulate(_, _, _)
Accumulate(digits, acc, positive) ==
  IF digits = <<>> THEN ParsedOk(acc)
  ELSE IF ~is_ascii_digit(digits[1]) THEN ParsedErr("InvalidDigit")
  ELSE LET d == DigitVal(digits[1]) IN
    IF positive
    THEN IF acc > I32Max \div 10 THEN ParsedErr("PosOverflow")
         ELSE IF acc * 10 > I32Max - d THEN ParsedErr("PosOverflow")
         ELSE Accumulate(Tail(digits), acc * 10 + d, positive)
    ELSE IF acc < -(I32Max \div 10) THEN ParsedErr("NegOverflow")
         ELSE IF acc * 10 < I32Min + d THEN ParsedErr("NegOverflow")
         ELSE Accumulate(Tail(digits), acc * 10 - d, positive)

\* faulty variant of ParseI32: the magnitude is parsed first and negated after
MutParseI32(token) ==
  IF token = <<>> THEN ParsedErr("Empty")
  ELSE IF token[1] = "-" /\ Len(token) > 1
  THEN LET m == Accumulate(Tail(token), 0, TRUE) IN
       IF m.ok THEN ParsedOk(-m.val) ELSE ParsedErr("NegOverflow")
  ELSE IF token[1] = "+" /\ Len(token) > 1 THEN Accumulate(Tail(token), 0, TRUE)
  ELSE Accumulate(token, 0, TRUE)

\* token.parse::<i32>()
ParseI32(token) ==
  IF token = <<>> THEN ParsedErr("Empty")
  ELSE IF token \in {<<"+">>, <<"-">>} THEN ParsedErr("InvalidDigit")
  ELSE IF token[1] = "+" THEN Accumulate(Tail(token), 0, TRUE)
  ELSE IF token[1] = "-" THEN Accumulate(Tail(token), 0, FALSE)
  ELSE Accumulate(token, 0, TRUE)

\* ------------------------------------------------------------- sub-scanners
\* faulty variant of IsNumberStart: a sign never starts a number
MutIsNumberStart(c0, c1) == is_ascii_digit(c0)

\* the first arm of the match: ('0'..='9', _) | ('+' | '-', Some('0'..='9'))
IsNumberStart(c0, c1) ==
  \/ is_ascii_digit(c0)
  \/ c0 \in {"+", "-"} /\ is_ascii_digit(c1)

\* char_indices().skip(1).find(|(_, f)| !f.is_ascii_digit()), else len():
\* the length of the token, whose first character is never inspected
RECURSIVE DigitRun(_)
DigitRun(s) ==
  IF s = <<>> \/ ~is_ascii_digit(s[1]) THEN 0 ELSE 1 + DigitRun(Tail(s))

NumberEnd(trimmed) == 1 + DigitRun(Tail(trimmed))

ScanNumber(trimmed) ==
  LET n == NumberEnd(trimmed)
      token == Take(trimmed, n)
      p == ParseI32(token)
  IN IF p.ok THEN Scanned(NumberToken(p.val, token), Drop(trimmed, n))
     ELSE Scanned(ParseIntError(p.err, token), trimmed)

\* faulty variant of symbol_token: the cursor moves one character only
Mut_symbol_token(chars, kind, sub, s) ==
  Scanned(Token(kind, sub, Take(s, Len(chars))), Drop(s, 1))

\* symbol_token: the token is the first len characters, len being the number
\* of characters of `chars`
symbol_token(chars, kind, sub, s) ==
  Scanned(Token(kind, sub, Take(s, Len(chars))), Drop(s, Len(chars)))

Row(c0, c1, kind, sub) == [c0 |-> c0, c1 |-> c1, kind |-> kind, sub |-> sub]

\* faulty variant of SymbolTable: one-character arms ahead of the longer ones
MutSymbolTable ==
  << Row("+", NoChar, "Operator", "Add"),
     Row("-", NoChar, "Operator", "Sub"),
     Row("*", NoChar, "Operator", "Mul"),
     Row("/", NoChar, "Operator", "Div"),
     Row("%", NoChar, "Operator", "Mod"),
     Row(">", NoChar, "Operator", "Gt"),
     Row("<", NoChar, "Operator", "Lt"),
     Row(":", "=", "Operator", "Assign"),
     Row("=", "=", "Operator", "Eq"),
     Row("!", "=", "Operator", "Ne"),
     Row(">", "=", "Operator", "Ge"),
     Row("<", "=", "Operator", "Le"),
     Row("*", "*", "Operator", "Pow"),
     Row("{", NoChar, "Delimiter", "BraceLeft"),
     Row("}", NoChar, "Delimiter", "BraceRight"),
     Row(",", NoChar, "Separator", "Comma"),
     Row(":", NoChar, "Separator", "Colon"),
     Row(";", NoChar, "Separator", "Semi") >>

\* the symbol arms of the match, in source order; a second character of
\* NoChar is the wildcard `_`
SymbolTable ==
  << Row("+", NoChar, "Operator", "Add"),
     Row("-", NoChar, "Operator", "Sub"),
     Row("*", "*", "Operator", "Pow"),
     Row("*", NoChar, "Operator", "Mul"),
     Row("/", NoChar, "Operator", "Div"),
     Row("%", NoChar, "Operator", "Mod"),
     Row(":", "=", "Operator", "Assign"),
     Row("=", "=", "Operator", "Eq"),
     Row("!", "=", "Operator", "Ne"),
     Row(">", "=", "Operator", "Ge"),
     Row("<", "=", "Operator", "Le"),
     Row(">", NoChar, "Operator", "Gt"),
     Row("<", NoChar, "Operator", "Lt"),
     Row("{", NoChar, "Delimiter", "BraceLeft"),
     Row("}", NoChar, "Delimiter", "BraceRight"),
     Row(",", NoChar, "Separator", "Comma"),
     Row(":", NoChar, "Separator", "Colon"),
     Row(";", NoChar, "Separator", "Semi") >>

RowMatches(row, c0, c1) ==
  row.c0 = c0 /\ (row.c1 = NoChar \/ row.c1 = c1)

\* index of the first arm that matches, 0 when none does
FirstRow(c0, c1) ==
  LET hits == {i \in DOMAIN SymbolTable : RowMatches(SymbolTable[i], c0, c1)}
  IN IF hits = {} THEN 0 ELSE CHOOSE i \in hits : \A j \in hits : i <= j

ScanSymbol(trimmed, i) ==
  LET row == SymbolTable[i]
      chars == IF row.c1 = NoChar THEN <<row.c0>> ELSE <<row.c0, row.c1>>
  IN symbol_token(chars, row.kind, row.sub, trimmed)

\* faulty variant of FindFrom: the first quote closes, escaped or not
MutFindFrom(trimmed, i, escaped) ==
  LET hits == {j \in i..Len(trimmed) : trimmed[j] = "\""}
  IN IF hits = {} THEN 0 ELSE CHOOSE j \in hits : \A k \in hits : j <= k

\* the closure of the first find() of the string arm, run from position i:
\* the position of the closing quote, 0 for None
RECURSIVE FindFrom(_, _, _)
FindFrom(trimmed, i, escaped) ==
  IF i > Len(trimmed) THEN 0
  ELSE IF trimmed[i] = "\\" /\ ~escaped THEN FindFrom(trimmed, i + 1, TRUE)
  ELSE IF trimmed[i] = "\"" /\ ~escaped THEN i
  ELSE FindFrom(trimmed, i + 1, FALSE)

FindClose(trimmed) == FindFrom(trimmed, 2, FALSE)

\* faulty variant of Escape: \n decodes to the letter n
MutEscape(cc) ==
  CASE cc = "\\" -> "\\"
    [] cc = "n" -> "n"
    [] cc = "t" -> "\t"
    [] cc = "0" -> NUL
    [] cc = "\"" -> "\""
    [] cc = "'" -> "'"
    [] OTHER -> NoChar

\* the table of recognized escapes; NoChar for an invalid escape
Escape(cc) ==
  CASE cc = "\\" -> "\\"
    [] cc = "n" -> "\n"
    [] cc = "t" -> "\t"
    [] cc = "0" -> NUL
    [] cc = "\"" -> "\""
    [] cc = "'" -> "'"
    [] OTHER -> NoChar

Decoded(string) == [ok |-> TRUE, str |-> string, ch |-> NoChar]
DecodeErr(c) == [ok |-> FALSE, str |-> <<>>, ch |-> c]

\* the filter_map over the content, collected into a Result: the first
\* invalid escape ends the collection
RECURSIVE DecodeFrom(_, _, _)
DecodeFrom(content, escaped, acc) ==
  IF content = <<>> THEN Decoded(acc)
  ELSE LET c == content[1] IN
    IF c = "\\" /\ ~escaped THEN DecodeFrom(Tail(content), TRUE, acc)
    ELSE IF escaped
    THEN IF Escape(c) = NoChar THEN DecodeErr(c)
         ELSE DecodeFrom(Tail(content), FALSE, Append(acc, Escape(c)))
    ELSE DecodeFrom(Tail(content), FALSE, Append(acc, c))

Decode(content) == DecodeFrom(content, FALSE, <<>>)

ScanString(trimmed) ==
  LET index == FindClose(trimmed) IN
  IF index = 0 THEN Scanned(UnterminatedString, trimmed)
  ELSE LET d == Decode(SubSeq(trimmed, 2, index - 1)) IN
    IF d.ok THEN Scanned(StringToken(d.str, Take(trimmed, index)),
                         Drop(trimmed, index))
    ELSE Scanned(InvalidEscape(d.ch), trimmed)

\* trimmed.find(|f| !(f.is_alphanumeric() | (f == '_'))), else len()
RECURSIVE IdentEnd(_)
IdentEnd(s) ==
  IF s = <<>> \/ ~(is_alphanumeric(s[1]) \/ s[1] = "_") THEN 0
  ELSE 1 + IdentEnd(Tail(s))

\* faulty variant of KeywordOf: the arms of gen and func are missing
MutKeywordOf(token) ==
  CASE token = <<"i", "f">> -> "If"
    [] token = <<"e", "l", "s", "e">> -> "Else"
    [] token = <<"w", "h", "i", "l", "e">> -> "While"
    [] token = <<"l", "o", "o", "p">> -> "Loop"
    [] token = <<"t", "r", "u", "e">> -> "True"
    [] token = <<"f", "a", "l", "s", "e">> -> "False"
    [] token = <<"l", "e", "t">> -> "Let"
    [] token = <<"t", "y", "p", "e">> -> "Type"
    [] token = <<"r", "e", "t", "u", "r", "n">> -> "Return"
    [] OTHER -> ""

\* the exact-match arms of the identifier arm; "" when none matches
KeywordOf(token) ==
  CASE token = <<"i", "f">> -> "If"
    [] token = <<"e", "l", "s", "e">> -> "Else"
    [] token = <<"w", "h", "i", "l", "e">> -> "While"
    [] token = <<"l", "o", "o", "p">> -> "Loop"
    [] token = <<"t", "r", "u", "e">> -> "True"
    [] token = <<"f", "a", "l", "s", "e">> -> "False"
    [] token = <<"l", "e", "t">> -> "Let"
    [] token = <<"t", "y", "p", "e">> -> "Type"
    [] token = <<"r", "e", "t", "u", "r", "n">> -> "Return"
    [] token = <<"g", "e", "n">> -> "Gen"
    [] token = <<"f", "u", "n", "c">> -> "Func"
    [] OTHER -> ""

ScanIdent(trimmed) ==
  LET n == IdentEnd(trimmed)
      token == Take(trimmed, n)
      c == trimmed[1]
  IN Scanned(IF KeywordOf(token) # "" THEN Token("Keyword", KeywordOf(token), token)
             ELSE IF is_uppercase(c) THEN Token("Type", "", token)
             ELSE Token("Name", "", token),
             Drop(trimmed, n))

\* ------------------------------------------------------ SplitTokens::next
\* the item of one pull on a cursor whose remainder is rem, with the text
\* that follows the token
Scan(rem) ==
  LET trimmed == Trim(rem) IN
  IF trimmed = <<>> THEN Scanned(NoneItem, rem)
  ELSE LET c0 == trimmed[1]
           c1 == IF Len(trimmed) >= 2 THEN trimmed[2] ELSE NoChar
       IN IF IsNumberStart(c0, c1) THEN ScanNumber(trimmed)
          ELSE IF FirstRow(c0, c1) # 0 THEN ScanSymbol(trimmed, FirstRow(c0, c1))
          ELSE IF c0 = "\"" THEN ScanString(trimmed)
          ELSE IF is_alphabetic(c0) \/ c0 = "_" THEN ScanIdent(trimmed)
          ELSE Scanned(InvalidChar(c0, Take(trimmed, 1)), trimmed)

\* faulty variant of Advance: an error moves the cursor one character on
MutAdvance(r, rem) ==
  IF r.item.tag = "Ok" THEN r.rest
  ELSE IF r.item.tag = "Err" THEN Drop(Trim(rem), 1)
  ELSE rem

\* result.map(|f| f.map(|(token, remainder)| { self.remainder = remainder; .. }))
Advance(r, rem) == IF r.item.tag = "Ok" THEN r.rest ELSE rem

\* one pull: SplitTokens::next on the cursor
next ==
  /\ Len(results) < MaxPulls
  /\ LET r == Scan(remainder) IN
       /\ remainder' = Advance(r, remainder)
       /\ results' = Append(results, r.item)
  /\ before' = remainder
  /\ UNCHANGED original

\* ------------------------------------------------------------------ inputs
NumAlphabet == {" ", "4", "-", "+", "a"}
StrAlphabet == {"\"", "\\", "n", "x", " "}
SymAlphabet == {"*", "=", ":", "!", ">", "<", "-", "/"}
IdAlphabet == {"i", "f", "T", "_", "!", "4", " "}

Texts(A) == UNION {[1..n -> A] : n \in 0..MaxLen}

\* literals around the ends of the 32-bit range
Boundary ==
  {sign \o <<"2", "1", "4", "7", "4", "8", "3", "6", "4">> \o <<d>> :
     sign \in {<<>>, <<"+">>, <<"-">>}, d \in AsciiDigits}

\* the texts of main() and of the examples of the specification
Samples ==
  { <<"\"", "\\", "n", "\\", "x", "\\", "y", "\"", " ", "z">>,
     <<"\"", "a", "b", "\\", "\"">>,
     <<" ", "\"", "a", "\\", "\\", "\\", "\"", " ">>,
     <<"c", "a", "t", "f", "o", "o", "d", "-", "4", "5">>,
     <<"c", "a", "t", "f", "o", "o", "d">>,
     <<"6", "7", "z", "2", "3">>,
     <<"c", "a", "t", "f", "o", "o", "d", "&", "-", "4", "5">>,
     <<"&">>,
     <<" ", "-", "4", "5", " ", "-", " ", "4", "5", " ", "+", " ", "+", "4", "5">>,
     <<"i", "f", " ", "+", "2", " ", "+", " ", "-", "2", " ", "e", "l", "s", "e", " ", "x", " ", ":", "=", " ", "x", " ", "-", " ", "5", " ">>,
     <<"c", "a", "t", "-", " ", "3", "2", "4", "3", "2", "4", "3", "2", "4", "3", "2", "4", "3", "2", "-", "r", "e", "f">>,
     <<"{", "2", "1", "3", "3", " ", "*", "*", " ", "2", "1", "}", " ", "%", " ", "2">>,
     <<"l", "e", "t", " ", "m", "y", "_", "s", "t", "r", "i", "n", "g", " ", ":", "=", " ", "\"", "l", "o", "l", "\\", "\"", "t", "e", "s", "t", "\"", ";", "\n", "l", "e", "t", " ", "x", "d", " ", ":", "=", " ", "2", ";">>,
     <<"l", "e", "t", " ", "m", "y", "_", "s", "t", "r", "i", "n", "g", " ", ":", "=", " ", "\"", "l", "o", "l", "\\", "\"", "t", "e", "s", "t", "\"", ";">>,
     <<"\"", "a", "b", "c">>,
     <<"f", "o", "o", "!">>,
     <<"F", "o", "o", "!">>,
     <<"=", ">">>,
     <<"-", ">">>,
     <<"/", "/">>,
     <<"a", " ", "b", " ">>,
     <<"\t", "7", " ", ",", "\n">>,
     <<"i", "f">>,
     <<"e", "l", "s", "e">>,
     <<"w", "h", "i", "l", "e">>,
     <<"l", "o", "o", "p">>,
     <<"t", "r", "u", "e">>,
     <<"f", "a", "l", "s", "e">>,
     <<"l", "e", "t">>,
     <<"t", "y", "p", "e">>,
     <<"r", "e", "t", "u", "r", "n">>,
     <<"g", "e", "n">>,
     <<"f", "u", "n", "c">>,
     <<"m", "a", "t", "c", "h">>,
     <<"I", "f">>,
     <<"i", "f", "f">>,
     <<"_", "i", "f">>,
     <<"r", "e", "t", "u", "r", "n", "_">>,
     <<"T", "y", "p", "e", " ", "x">>,
     <<"0", "0", "7">>,
     <<"+", "0", "0", "4", "5">>,
     <<"-", "0">>,
     <<"9", "9", "9", "9", "9", "9", "9", "9", "9", "9", "9">>,
     <<"-", "9", "9", "9", "9", "9", "9", "9", "9", "9", "9", "9", " ", "x">>,
     <<"+", "2", "1", "4", "7", "4", "8", "3", "6", "4", "7">>,
     <<"0", "0", "0", "0", "0", "0", "0", "0", "0", "0", "2", "1", "4", "7", "4", "8", "3", "6", "4", "8">>,
     <<"\"", "\\", "\\", "\\", "n", "\\", "t", "\\", "0", "\\", "\"", "\\", "'", "\"">>,
     <<"\"", "a", "\\", "q", "b", "\\", "z", "\"", " ", "1">>,
     <<"\"", "\\", "\\", "\"", " ", ";">>,
     <<"\"", "a", " ", "b", "\"", " ", "c">> }

Inputs ==
  Texts(NumAlphabet) \cup Texts(StrAlphabet) \cup Texts(SymAlphabet)
    \cup Texts(IdAlphabet) \cup Boundary \cup Samples

\* split_tokens(string): SplitTokens::new
Init ==
  /\ original \in Inputs
  /\ remainder = original
  /\ before = original
  /\ results = <<>>

Next == next

Spec == Init /\ [][Next]_vars

\* ===================================================================
\* Properties.  The definitions below describe what a pull is expected to
\* return, independently of the scanner's own loops.
\* ===================================================================
Pulled == results # <<>>
Last == results[Len(results)]

\* the text the last pull looked at, leading whitespace skipped
AtCursor == Drop(before, LeadingWs(before))

StartsWith(t, p) == Len(t) >= Len(p) /\ Take(t, Len(p)) = p
IsSuffix(s, t) == Len(s) <= Len(t) /\ Drop(t, Len(t) - Len(s)) = s
StripEnd(s) == Take(s, Len(s) - TrailingWs(s))
IsErr(r) == r.tag = "Err"
IsTok(r) == r.tag = "Ok"

\* --- C1 -------------------------------------------------------------
\* C1: the result sequence of one cursor stops at the first error: an
\* error result occurs at most once, and every result after it is
\* end-of-sequence.
C1_ErrorOnceThenEnd ==
  \A i, j \in DOMAIN results :
    (i < j /\ IsErr(results[i])) => results[j].tag = "None"

\* --- C2 -------------------------------------------------------------
\* C2: a pull that returns an error leaves the remaining input strictly
\* shorter than it was before the pull.
C2_ErrorAdvances ==
  (Pulled /\ IsErr(Last)) => Len(remainder) < Len(before)

\* --- C3 -------------------------------------------------------------
\* C3: once a pull has returned an error or end-of-sequence, every later
\* pull returns that same non-token result, never a token, and the cursor
\* stays where it was.
C3_NonTokenIrreversible ==
  /\ \A i, j \in DOMAIN results :
       (i < j /\ ~IsTok(results[i])) => results[j] = results[i]
  /\ (Pulled /\ ~IsTok(Last)) => remainder = before

C3_Witness ==
  /\ Len(results) >= 3
  /\ IsTok(results[1])
  /\ IsErr(results[2])
  /\ results[3] = results[2]

\* --- numeric literals -----------------------------------------------
Max(S) == CHOOSE x \in S : \A y \in S : y <= x
Min(S) == CHOOSE x \in S : \A y \in S : x <= y

\* length of the longest prefix of s whose characters all lie in C
PrefixIn(s, C) == Max({k \in 0..Len(s) : \A i \in 1..k : s[i] \in C})

StartsNumber(t) ==
  /\ t # <<>>
  /\ \/ t[1] \in AsciiDigits
     \/ t[1] \in {"+", "-"} /\ Len(t) >= 2 /\ t[2] \in AsciiDigits

HasSign(t) == t[1] \in {"+", "-"}

\* the optional sign plus the maximal run of ASCII digits at the head of t
NumLexeme(t) ==
  IF HasSign(t) THEN Take(t, 1 + PrefixIn(Tail(t), AsciiDigits))
  ELSE Take(t, PrefixIn(t, AsciiDigits))

LitDigits(lit) == IF HasSign(lit) THEN Tail(lit) ELSE lit
Significant(ds) == Drop(ds, PrefixIn(ds, {"0"}))
Negative(lit) == lit[1] = "-"

\* a <= b for two digit strings of one length
DigitsLeq(a, b) ==
  \/ a = b
  \/ \E i \in 1..Len(a) :
       /\ DigitVal(a[i]) < DigitVal(b[i])
       /\ \A j \in 1..(i - 1) : a[j] = b[j]

MaxMagnitude == <<"2", "1", "4", "7", "4", "8", "3", "6", "4", "7">>
MinMagnitude == <<"2", "1", "4", "7", "4", "8", "3", "6", "4", "8">>

\* the integer the literal denotes lies in [-2147483648, 2147483647]
Fits(lit) ==
  LET ds == Significant(LitDigits(lit)) IN
    \/ Len(ds) < Len(MaxMagnitude)
    \/ /\ Len(ds) = Len(MaxMagnitude)
       /\ DigitsLeq(ds, IF Negative(lit) THEN MinMagnitude ELSE MaxMagnitude)

\* the integer a fitting literal denotes: the signed sum of digit * 10^place
RECURSIVE PlaceSum(_, _)
PlaceSum(ds, sign) ==
  IF ds = <<>> THEN 0
  ELSE sign * DigitVal(ds[1]) * 10 ^ (Len(ds) - 1) + PlaceSum(Tail(ds), sign)

Denoted(lit) ==
  PlaceSum(Significant(LitDigits(lit)), IF Negative(lit) THEN -1 ELSE 1)

\* the cursor after a token: the text behind the lexeme, up to the trailing
\* whitespace of the input
ConsumedExactly(lexeme) ==
  /\ StartsWith(AtCursor, lexeme)
  /\ StripEnd(Drop(AtCursor, Len(lexeme))) = StripEnd(remainder)

CatFood == <<"c", "a", "t", "f", "o", "o", "d", "-", "4", "5">>

SignOperator ==
  (Pulled /\ AtCursor # <<>> /\ HasSign(AtCursor) /\ ~StartsNumber(AtCursor)) =>
    /\ Last = Token("Operator", IF AtCursor[1] = "+" THEN "Add" ELSE "Sub",
                    <<AtCursor[1]>>)
    /\ ConsumedExactly(<<AtCursor[1]>>)

CatFoodTokens ==
  (original = CatFood /\ Len(results) >= 3) =>
    /\ results[1] = Token("Name", "", Take(CatFood, 7))
    /\ results[2] = NumberToken(-45, Drop(CatFood, 7))
    /\ results[3] = NoneItem

\* --- C4 -------------------------------------------------------------
\* C4 as stated: at a digit, or at a sign directly followed by a digit, the
\* pull yields one Number token whose lexeme is the optional sign plus the
\* maximal digit run; a sign not followed by a digit yields Add/Sub of
\* width one; "catfood-45" is Identifier catfood, Number -45.
C4_AlwaysNumber ==
  /\ (Pulled /\ StartsNumber(AtCursor)) =>
       /\ IsTok(Last) /\ Last.kind = "Number"
       /\ Last.lexeme = NumLexeme(AtCursor)
       /\ ConsumedExactly(NumLexeme(AtCursor))
  /\ SignOperator
  /\ CatFoodTokens

\* C4 amended: at a digit, or at a sign directly followed by a digit, the
\* pull yields one Number token whose lexeme is the optional sign plus the
\* maximal digit run when that literal fits 32 bits, and otherwise the
\* integer parse error carrying that lexeme; the sign is never emitted as
\* Add/Sub.  A sign not followed by a digit yields
\* Add/Sub of width one; "catfood-45" is Identifier catfood, Number -45.
C4_SignDigitAdjacency ==
  /\ (Pulled /\ StartsNumber(AtCursor)) =>
       /\ Last.kind \in {"Number", "ParseIntError"}
       /\ Last.lexeme = NumLexeme(AtCursor)
       /\ IsTok(Last) <=> Fits(NumLexeme(AtCursor))
       /\ IsTok(Last) => ConsumedExactly(NumLexeme(AtCursor))
  /\ SignOperator
  /\ CatFoodTokens

C4_Witness ==
  /\ original = CatFood
  /\ Len(results) = 2
  /\ Last.kind = "Number"
  /\ AtCursor[1] = "-"

\* --- C5 -------------------------------------------------------------
\* C5: a numeric literal yields a Number token exactly when the integer it
\* denotes lies in the 32-bit signed range, and then the stored value is
\* that integer (also with a leading '+' or leading zeros); otherwise the
\* pull yields the integer parse error carrying the whole lexeme, and no
\* Number token.
C5_NumberRange ==
  (Pulled /\ StartsNumber(AtCursor)) =>
    LET lit == NumLexeme(AtCursor) IN
      IF Fits(lit)
      THEN Last = NumberToken(Denoted(lit), lit)
      ELSE /\ IsErr(Last)
           /\ Last.kind = "ParseIntError"
           /\ Last.lexeme = lit
           /\ Last.sub = IF Negative(lit) THEN "NegOverflow" ELSE "PosOverflow"

C5_Witness ==
  /\ Pulled
  /\ StartsNumber(AtCursor)
  /\ Last = NumberToken(I32Min, <<"-">> \o MinMagnitude)

\* --- string literals ------------------------------------------------
Quote == "\""
Backslash == "\\"

\* number of consecutive backslashes directly before position i of t, the
\* opening quote at position 1 excluded
BackslashRun(t, i) ==
  Max({k \in 0..(i - 2) : \A j \in (i - k)..(i - 1) : t[j] = Backslash})

\* position i holds a character that a backslash escapes
IsEscaped(t, i) == BackslashRun(t, i) % 2 = 1

\* position i holds a backslash that introduces an escape
IsIntroducer(t, i) == t[i] = Backslash /\ ~IsEscaped(t, i)

ClosingQuotes(t) == {i \in 2..Len(t) : t[i] = Quote /\ ~IsEscaped(t, i)}

\* position of the first unescaped closing quote, 0 when there is none
ClosePos(t) == IF ClosingQuotes(t) = {} THEN 0 ELSE Min(ClosingQuotes(t))

RecognizedEscapes == {Backslash, "n", "t", "0", Quote, "'"}

\* positions of the escaped characters of the literal that are not recognized
BadEscapes(t) ==
  {i \in 2..(ClosePos(t) - 1) : IsEscaped(t, i) /\ t[i] \notin RecognizedEscapes}

\* the character a backslash pair stands for
Unescape(c) ==
  CASE c = Backslash -> Backslash
    [] c = "n" -> "\n"
    [] c = "t" -> "\t"
    [] c = "0" -> NUL
    [] c = Quote -> Quote
    [] c = "'" -> "'"

\* the text between the quotes, every backslash pair replaced by its character
DecodedValue(t) ==
  LET kept == {i \in 2..(ClosePos(t) - 1) : ~IsIntroducer(t, i)}
      at(k) == CHOOSE i \in kept : Cardinality({j \in kept : j <= i}) = k
  IN [k \in 1..Cardinality(kept) |->
        IF IsEscaped(t, at(k)) THEN Unescape(t[at(k)]) ELSE t[at(k)]]

StartsString(t) == t # <<>> /\ t[1] = Quote

LetMyString == <<"l", "e", "t", " ", "m", "y", "_", "s", "t", "r", "i", "n", "g", " ", ":", "=", " ", "\"", "l", "o", "l", "\\", "\"", "t", "e", "s", "t", "\"", ";">>

LetMyStringTokens ==
  (original = LetMyString /\ Len(results) >= 5) =>
    /\ results[1] = Token("Keyword", "Let", <<"l", "e", "t">>)
    /\ results[2] = Token("Name", "", <<"m", "y", "_", "s", "t", "r", "i", "n", "g">>)
    /\ results[3] = Token("Operator", "Assign", <<":", "=">>)
    /\ results[4] = StringToken(<<"l", "o", "l", "\"", "t", "e", "s", "t">>, <<"\"", "l", "o", "l", "\\", "\"", "t", "e", "s", "t", "\"">>)
    /\ results[5] = Token("Separator", "Semi", <<";">>)

\* --- C6 -------------------------------------------------------------
\* C6: a string literal with a closing unescaped quote and only recognized
\* escapes yields one String token; its lexeme runs from the opening quote
\* through the first unescaped closing quote, its value is the text between
\* them with every backslash pair replaced by its character, and the cursor
\* moves past the closing quote.  The text  let my_string := "lol\"test";
\* yields Keyword Let, Identifier my_string, Assign, String lol"test, Semi.
C6_StringToken ==
  /\ (Pulled /\ StartsString(AtCursor)
        /\ ClosePos(AtCursor) # 0 /\ BadEscapes(AtCursor) = {}) =>
       /\ Last = StringToken(DecodedValue(AtCursor),
                             Take(AtCursor, ClosePos(AtCursor)))
       /\ ConsumedExactly(Take(AtCursor, ClosePos(AtCursor)))
  /\ LetMyStringTokens

C6_Witness ==
  /\ original = LetMyString
  /\ Len(results) = 4
  /\ Last.kind = "String"
  /\ Last.str = <<"l", "o", "l", "\"", "t", "e", "s", "t">>

\* --- C7 -------------------------------------------------------------
\* C7: a pull at an opening quote yields UnterminatedString exactly when no
\* unescaped closing quote follows, and InvalidEscape(c) exactly when the
\* literal is terminated and c is its first escaped character that is not
\* recognized; in both cases the result is the error alone, no String token.
C7_StringErrors ==
  (Pulled /\ StartsString(AtCursor)) =>
    /\ Last = UnterminatedString <=> ClosePos(AtCursor) = 0
    /\ (IsErr(Last) /\ Last.kind = "InvalidEscape") <=>
         (ClosePos(AtCursor) # 0 /\ BadEscapes(AtCursor) # {})
    /\ (ClosePos(AtCursor) # 0 /\ BadEscapes(AtCursor) # {}) =>
         Last = InvalidEscape(AtCursor[Min(BadEscapes(AtCursor))])
    /\ IsErr(Last) => Last.kind \in {"UnterminatedString", "InvalidEscape"}
    /\ IsErr(Last) \/ (IsTok(Last) /\ Last.kind = "String")

C7_Witness ==
  /\ Pulled
  /\ StartsString(AtCursor)
  /\ Last = InvalidEscape("x")
  /\ \E i \in 2..(ClosePos(AtCursor) - 1) :
       i < Min(BadEscapes(AtCursor)) /\ IsEscaped(AtCursor, i)

\* --- symbols ---------------------------------------------------------
Sym(a, b) == <<a, b>>

\* the multi-character symbols the specification lists
ListedSymbols ==
  {Sym("*", "*"), Sym(":", "="), Sym("=", "="), Sym("!", "="), Sym(">", "="),
   Sym("<", "="), Sym("-", ">"), Sym("=", ">")}

\* the multi-character symbols SplitTokens knows
TableSymbols ==
  {Sym("*", "*"), Sym(":", "="), Sym("=", "="), Sym("!", "="), Sym(">", "="),
   Sym("<", "=")}

SymbolName(sym) ==
  CASE sym = Sym("*", "*") -> "Pow"
    [] sym = Sym(":", "=") -> "Assign"
    [] sym = Sym("=", "=") -> "Eq"
    [] sym = Sym("!", "=") -> "Ne"
    [] sym = Sym(">", "=") -> "Ge"
    [] sym = Sym("<", "=") -> "Le"

Letters == Lowercase \cup Uppercase
WordChars == Letters \cup AsciiDigits \cup {"_"}

StartsWord(t) == t # <<>> /\ t[1] \in Letters \cup {"_"}

\* the maximal run of alphanumeric/underscore characters at the head of t
WordRun(t) == Take(t, PrefixIn(t, WordChars))

BangFollows(t) ==
  Len(t) > Len(WordRun(t)) /\ t[Len(WordRun(t)) + 1] = "!"

Kw(word, name) == [word |-> word, name |-> name]

\* the keyword spellings SplitTokens matches
CodeKeywords ==
  {Kw(<<"i", "f">>, "If"), Kw(<<"e", "l", "s", "e">>, "Else"), Kw(<<"w", "h", "i", "l", "e">>, "While"),
   Kw(<<"l", "o", "o", "p">>, "Loop"), Kw(<<"t", "r", "u", "e">>, "True"), Kw(<<"f", "a", "l", "s", "e">>, "False"),
   Kw(<<"l", "e", "t">>, "Let"), Kw(<<"t", "y", "p", "e">>, "Type"), Kw(<<"r", "e", "t", "u", "r", "n">>, "Return"),
   Kw(<<"g", "e", "n">>, "Gen"), Kw(<<"f", "u", "n", "c">>, "Func")}

\* the keyword spellings the specification lists
ListedKeywords == CodeKeywords \cup {Kw(<<"m", "a", "t", "c", "h">>, "Match")}

\* the token a word is expected to give under a keyword table
Classified(kws, span, name_kind) ==
  IF \E k \in kws : k.word = span
  THEN Token("Keyword", (CHOOSE k \in kws : k.word = span).name, span)
  ELSE IF span[1] \in Uppercase THEN Token("Type", "", span)
  ELSE Token(name_kind, "", span)

FooBang == <<"f", "o", "o", "!">>

RECURSIVE Lexemes(_)
Lexemes(rs) ==
  IF rs = <<>> THEN <<>>
  ELSE IF IsTok(rs[1]) THEN <<rs[1].lexeme>> \o Lexemes(Tail(rs))
  ELSE Lexemes(Tail(rs))

Mismatch == <<"mismatch">>

\* what is left of text once the lexemes have been taken off its head in
\* order, only whitespace allowed before each; Mismatch when they do not fit
RECURSIVE Leftover(_, _)
Leftover(text, lexemes) ==
  IF lexemes = <<>> THEN text
  ELSE LET t == Drop(text, LeadingWs(text)) IN
    IF lexemes[1] # <<>> /\ StartsWith(t, lexemes[1])
    THEN Leftover(Drop(t, Len(lexemes[1])), Tail(lexemes))
    ELSE Mismatch

\* C10 as stated: the remaining input is a suffix of the original text and
\* never grows; a pull that returns a token shortens it by exactly the
\* skipped leading whitespace plus the token's lexeme; the lexemes emitted
\* so far lie in the original text in order, whitespace alone between them.
C10_SuffixOfOriginal ==
  /\ IsSuffix(remainder, original)
  /\ Len(remainder) <= Len(before)
  /\ (Pulled /\ IsTok(Last)) =>
       /\ Len(before) - Len(remainder) = LeadingWs(before) + Len(Last.lexeme)
       /\ Len(remainder) < Len(before)
  /\ Leftover(original, Lexemes(results)) = remainder

\* C10 amended: the remaining input is the original text or a suffix of the
\* original text without its trailing whitespace, and never grows; a pull
\* that returns a token shortens it by exactly the skipped leading
\* whitespace plus the token's lexeme plus the trailing whitespace of the
\* remaining input; the lexemes emitted so far lie in the original text in
\* order, whitespace alone between them, and what follows the last one is
\* the remaining input up to trailing whitespace.
C10_CursorShrinks ==
  /\ remainder = original \/ IsSuffix(remainder, StripEnd(original))
  /\ Len(remainder) <= Len(before)
  /\ (Pulled /\ IsTok(Last)) =>
       /\ Len(before) - Len(remainder)
            = LeadingWs(before) + Len(Last.lexeme) + TrailingWs(before)
       /\ Len(remainder) < Len(before)
       /\ AtCursor = Last.lexeme \o remainder \o
                       Drop(before, Len(before) - TrailingWs(before))
  /\ Lexemes(results) # <<>> =>
       /\ Leftover(original, Lexemes(results)) # Mismatch
       /\ StripEnd(Leftover(original, Lexemes(results))) = remainder

C10_Witness ==
  /\ original = <<" ", "-", "4", "5", " ", "-", " ", "4", "5", " ", "+", " ", "+", "4", "5">>
  /\ Len(results) = 5
  /\ Lexemes(results) = <<<<"-", "4", "5">>, <<"-">>, <<"4", "5">>, <<"+">>, <<"+", "4", "5">>>>
  /\ remainder = <<>>

====
